---------------------------- MODULE Spec2Model ----------------------------
(***************************************************************************)
(* A model of nuxt-open-fetch's runtime client (src/runtime/fetch.ts):     *)
(* the client factory createOpenFetch, the hook dispatch chain createHook, *)
(* the transport selection getFetch and the path template resolver         *)
(* fillPath.                                                               *)
(*                                                                         *)
(* Strings that the code inspects character by character (URLs, base URLs, *)
(* path templates, parameter values) are sequences of one-character        *)
(* strings.  An options object is a function from the keys it has to their *)
(* values; a key the object lacks is not in its DOMAIN.                    *)
(***************************************************************************)
EXTENDS Integers, Sequences, FiniteSets, TLC

VARIABLES
    client,     \* the arguments createOpenFetch was given
    server,     \* import.meta.server
    call,       \* the arguments of the current call of the client
    baseOpts,   \* the effective options (baseOpts after its reassignment)
    sent,       \* what the selected transport was invoked with
    pc,         \* position of the running hook invocation
    event,      \* the lifecycle event the transport raised
    queue,      \* subscribers callHook has still to call, in order
    running,    \* subscribers / hooks called and not yet settled
    result,     \* how the hook invocation settled
    log,        \* starts and ends of hooks during the invocation
    published,  \* channels callHook was called with during the invocation
    fpT,        \* fillPath: the template, as a sequence of pieces
    fpM,        \* fillPath: the parameter map, as Object.entries lists it
    fpOut,      \* fillPath: the returned path
    tyIn,       \* type check: the call site and the schema types it is checked against
    tyOut       \* type check: what the type checker makes of the call site

runVars == <<pc, event, queue, running, result, log, published>>
callVars == <<client, server, call, baseOpts, sent>>
fpVars == <<fpT, fpM, fpOut>>
tyVars == <<tyIn, tyOut>>
pureVars == <<fpVars, tyVars>>
vars == <<client, server, call, baseOpts, sent, pc, event, queue, running,
          result, log, published, fpT, fpM, fpOut, tyIn, tyOut>>

-----------------------------------------------------------------------------
(* Bounds *)

MaxSubs == 2      \* subscribers of one channel of the hook registry
MaxList == 2      \* entries of a local hook list
MaxPieces == 3    \* pieces a path template is built from

-----------------------------------------------------------------------------
(* Strings *)

RECURSIVE Flatten(_)
Flatten(ss) == IF ss = <<>> THEN <<>> ELSE Head(ss) \o Flatten(Tail(ss))

StartsWithSlash(s) == Len(s) > 0 /\ s[1] = "/"

\* String.prototype.indexOf: the first position pat occurs at in s, 0 if none.
IndexOf(s, pat) ==
    LET hits == {i \in 1..(Len(s) - Len(pat) + 1) :
                    SubSeq(s, i, i + Len(pat) - 1) = pat}
    IN  IF hits = {} THEN 0 ELSE CHOOSE i \in hits : \A j \in hits : i <= j

\* String.prototype.replace with a string pattern: the first occurrence only.
\* (The replacement here never holds a "$", see encodeURIComponent.)
ReplaceFirst(s, pat, rep) ==
    LET i == IndexOf(s, pat)
    IN  IF i = 0 THEN s
        ELSE SubSeq(s, 1, i - 1) \o rep \o SubSeq(s, i + Len(pat), Len(s))

\* The characters encodeURIComponent leaves alone, among those the model uses.
Unreserved == {"a", "b", "c", "x", "y", "1", "2"}

EncodeChar(c) ==
    IF c \in Unreserved THEN <<c>>
    ELSE CASE c = "/" -> <<"%", "2", "F">>
           [] c = "{" -> <<"%", "7", "B">>
           [] c = "}" -> <<"%", "7", "D">>
           [] c = " " -> <<"%", "2", "0">>
           [] c = ":" -> <<"%", "3", "A">>
           [] OTHER   -> <<"%", "2", "5">>     \* "%" itself

encodeURIComponent(s) == Flatten([i \in 1..Len(s) |-> EncodeChar(s[i])])

\* String(v) for a parameter value: a string is itself, a number its digits.
Num(n) == [t |-> "num", n |-> n, s |-> <<>>]
Str(s) == [t |-> "str", n |-> 0, s |-> s]
Digit(n) == IF n = 1 THEN "1" ELSE "2"
String(v) == IF v.t = "num" THEN <<Digit(v.n)>> ELSE v.s

-----------------------------------------------------------------------------
(* fillPath *)

\* fillStep without the percent-encoding of the value.
fillStepNoEncode(path, params, i) ==
    ReplaceFirst(path, <<"{">> \o params[i][1] \o <<"}">>, String(params[i][2]))

\* One turn of the loop: path = path.replace(`{${k}}`, encodeURIComponent(String(v)))
fillStep(path, params, i) ==
    ReplaceFirst(path, <<"{">> \o params[i][1] \o <<"}">>,
                 encodeURIComponent(String(params[i][2])))

RECURSIVE fillFrom(_, _, _)
fillFrom(path, params, i) ==
    IF i > Len(params) THEN path
    ELSE fillFrom(fillStep(path, params, i), params, i + 1)

\* params is the list Object.entries gives: <<key, value>> pairs in insertion
\* order; an undefined params defaults to {} (the empty list).
fillPath(path, params) == fillFrom(path, params, 1)

-----------------------------------------------------------------------------
(* Options objects, hooks and the client's configuration *)

Events == {"onRequest", "onRequestError", "onResponse", "onResponseError"}

NoOpts == [k \in {} |-> <<>>]

\* { ...a, ...b }: every key of either, b's value where both have the key.
Spread(a, b) ==
    [k \in (DOMAIN a) \cup (DOMAIN b) |-> IF k \in DOMAIN b THEN b[k] ELSE a[k]]

\* A hook field holds one function, a list of functions, or the composed hook
\* createHook returns.  A function is named <<owner, i>>.
HookFn(owner) == [kind |-> "fn", fns |-> <<<<owner, 1>>>>]
HookList(owner, n) == [kind |-> "array", fns |-> [i \in 1..n |-> <<owner, i>>]]
HookVals(owner) == {HookFn(owner)} \cup {HookList(owner, n) : n \in 0..MaxList}

\* An options object with the keys `keys`, among baseURL, path and hook fields.
MkOpts(keys, bu, pm, hv) ==
    [k \in keys |-> CASE k = "baseURL" -> bu
                     [] k = "path"    -> pm
                     [] OTHER         -> hv]

\* The options functions a client may be configured with: `ignore` returns a
\* fixed object, `merge` spreads the call options over it, `under` spreads it
\* over the call options.
FnBase == MkOpts({"baseURL", "onRequest"}, <<"/", "a">>, <<>>, HookFn("fn"))
FnIds == {"ignore", "merge", "under"}
ApplyFn(id, o) ==
    CASE id = "ignore" -> FnBase
      [] id = "merge"  -> Spread(FnBase, o)
      [] OTHER         -> Spread(o, FnBase)

StaticConfig(obj) == [fn |-> FALSE, obj |-> obj, id |-> ""]
FnConfig(id) == [fn |-> TRUE, obj |-> NoOpts, id |-> id]

-----------------------------------------------------------------------------
(* createOpenFetch: the steps of one call of the client *)

\* A second merge of the call options after the options function has run.
ResolveOptionsMergeTwice(options, o) ==
    IF options.fn THEN Spread(ApplyFn(options.id, o), o) ELSE Spread(options.obj, o)

\* baseOpts = typeof options === 'function' ? options(baseOpts)
\*                                          : { ...options, ...baseOpts }
ResolveOptions(options, o) ==
    IF options.fn THEN ApplyFn(options.id, o) ELSE Spread(options.obj, o)

\* The closure createHook returns; what it captured (hooks, baseOpts,
\* hookIdentifier) is the state the call leaves in client and baseOpts, and
\* the event is the key it is stored under.
createHook == [kind |-> "composed", fns |-> <<>>]

\* getOpenFetchHooks without its `if (!hooks) return {}`.
getOpenFetchHooksNoGuard(hooks, b, hookIdentifier) == [e \in Events |-> createHook]

getOpenFetchHooks(hooks, b, hookIdentifier) ==
    IF ~hooks THEN NoOpts ELSE [e \in Events |-> createHook]

\* A truthy baseURL is taken for root-relative whatever it starts with.
getFetchAnyBase(url, opts, localFetch) ==
    IF server /\ localFetch /\ StartsWithSlash(url) THEN "local" ELSE "global"

\* !opts.baseURL holds of a missing baseURL and of the empty string.
getFetch(url, opts, localFetch) ==
    IF server /\ localFetch
       /\ StartsWithSlash(url)
       /\ ("baseURL" \notin DOMAIN opts \/ opts.baseURL = <<>>
           \/ StartsWithSlash(opts.baseURL))
    THEN "local" ELSE "global"

NoCall == [url |-> <<>>, opts |-> NoOpts]
NotSent == [made |-> FALSE, transport |-> "", url |-> <<>>, opts |-> NoOpts]
NoResult == [st |-> "none", err |-> <<>>]
Resolved == [st |-> "resolved", err |-> <<>>]
Rejected(id) == [st |-> "rejected", err |-> id]

Quiet == pc \in {"idle", "done"} /\ running = {}

RunReset ==
    /\ pc' = "idle" /\ event' = "" /\ queue' = <<>> /\ running' = {}
    /\ result' = NoResult /\ log' = <<>> /\ published' = {}

\* The client is called with (u, o): lines 189-210 up to the transport's call.
\* A client that takes the path key out of the options it hands on.
CallWithoutPath(u, o) ==
    /\ Quiet /\ ~sent.made
    /\ LET b == ResolveOptions(client.options, o)
           opts == Spread(b, getOpenFetchHooks(client.hooks, b, client.hookIdentifier))
           fetch == getFetch(u, opts, client.localFetch)
           path == IF "path" \in DOMAIN opts THEN opts.path ELSE <<>>
       IN  /\ call' = [url |-> u, opts |-> o]
           /\ baseOpts' = b
           /\ sent' = [made |-> TRUE, transport |-> fetch,
                       url |-> fillPath(u, path),
                       opts |-> [k \in DOMAIN opts \ {"path"} |-> opts[k]]]
    /\ RunReset
    /\ UNCHANGED <<client, server, pureVars>>

Call(u, o) ==
    /\ Quiet /\ ~sent.made
    /\ LET b == ResolveOptions(client.options, o)
           opts == Spread(b, getOpenFetchHooks(client.hooks, b, client.hookIdentifier))
           fetch == getFetch(u, opts, client.localFetch)
           path == IF "path" \in DOMAIN opts THEN opts.path ELSE <<>>
       IN  /\ call' = [url |-> u, opts |-> o]
           /\ baseOpts' = b
           /\ sent' = [made |-> TRUE, transport |-> fetch,
                       url |-> fillPath(u, path), opts |-> opts]
    /\ RunReset
    /\ UNCHANGED <<client, server, pureVars>>

\* The transport's promise settles and the call is over.
Return ==
    /\ Quiet /\ sent.made
    /\ call' = NoCall /\ baseOpts' = NoOpts /\ sent' = NotSent
    /\ RunReset
    /\ UNCHANGED <<client, server, pureVars>>

-----------------------------------------------------------------------------
(* The hook dispatch chain: the async function createHook returns *)

TierOf(id) == IF id[1] \in {"global", "client"} THEN id[1] ELSE "local"
Entry(k, id) == [k |-> k, tier |-> TierOf(id), id |-> id]
TypeError == <<"TypeError", 0>>

\* The subscribers the registry holds for a channel when callHook is called:
\* any number of them up to the bound, in their order of registration.
Subscribers(tier, n) == [i \in 1..n |-> <<tier, i>>]

\* The function goes on without awaiting what callHook returned.
CallHookNotAwaited == TRUE

\* `await hooks.callHook(...)` returns once callHook's promise is fulfilled:
\* every subscriber has been called and has settled.
CallHookSettled == queue = <<>> /\ \A h \in running : TierOf(h) # pc

\* Promise.race in place of Promise.all: the first entry to settle decides.
LocalJoinedRace == \E h \in DOMAIN log : log[h].k = "end" /\ log[h].tier = "local"

\* `await Promise.all(...)` is fulfilled once every entry is fulfilled.
LocalJoined == running = {}

\* Lines 145-152, run when the awaits before them have returned: the local
\* hook of the event is read from baseOpts and called.  A list is mapped
\* over, calling each entry in turn; an entry that throws when called ends
\* the map, and the entries before it are left running.  k is the entry that
\* throws, 0 if none does.
LocalTier(k) ==
    IF event \notin DOMAIN baseOpts
    THEN /\ k = 0
         /\ pc' = "done" /\ result' = Resolved
         /\ UNCHANGED <<running, log>>
    ELSE LET fns == baseOpts[event].fns
             called == IF k = 0 THEN fns ELSE SubSeq(fns, 1, k)
             starts == [i \in 1..Len(called) |-> Entry("start", called[i])]
         IN  /\ k \in 0..Len(fns)
             /\ IF k = 0
                THEN /\ pc' = "local" /\ result' = result
                     /\ running' = running \cup {fns[i] : i \in 1..Len(fns)}
                     /\ log' = log \o starts
                ELSE /\ pc' = "done" /\ result' = Rejected(fns[k])
                     /\ running' = running \cup {fns[i] : i \in 1..(k - 1)}
                     /\ log' = (log \o starts) \o <<Entry("throw", fns[k])>>

\* The transport raises event e and calls the composed hook it was given:
\* line 136, hooks.callHook(`openFetch:${hook}`, ...args).
InvokeComposed(e) ==
    /\ Quiet /\ sent.made
    /\ e \in DOMAIN sent.opts /\ sent.opts[e].kind = "composed"
    /\ event' = e /\ running' = {} /\ log' = <<>>
    /\ IF ~client.hooks
       THEN /\ pc' = "done" /\ result' = Rejected(TypeError)
            /\ queue' = <<>> /\ published' = {}
       ELSE /\ pc' = "global" /\ result' = NoResult
            /\ \E n \in 0..MaxSubs : queue' = Subscribers("global", n)
            /\ published' = {<<e, "">>}
    /\ UNCHANGED <<callVars, pureVars>>

\* callHook calls its subscribers one after the other (hookable's serial
\* caller): the next one once the one before has been fulfilled. Without a
\* registry the transport does the same with the hook field it was given.
SubStart ==
    /\ pc \in {"global", "client", "raw"}
    /\ queue # <<>>
    /\ \A h \in running : TierOf(h) # TierOf(Head(queue))
    /\ running' = running \cup {Head(queue)}
    /\ queue' = Tail(queue)
    /\ log' = Append(log, Entry("start", Head(queue)))
    /\ UNCHANGED <<callVars, pureVars, pc, event, result, published>>

SubEnd ==
    /\ \E h \in running :
        /\ TierOf(h) \in {"global", "client"} \/ pc = "raw"
        /\ running' = running \ {h}
        /\ log' = Append(log, Entry("end", h))
    /\ UNCHANGED <<callVars, pureVars, pc, event, queue, result, published>>

\* The error of a failing subscriber is caught and the chain goes on.
SubFailCaught ==
    /\ pc \in {"global", "client", "raw"}
    /\ \E h \in running :
        /\ TierOf(h) = pc \/ pc = "raw"
        /\ running' = running \ {h}
        /\ log' = Append(log, Entry("fail", h))
    /\ queue' = <<>>
    /\ UNCHANGED <<callVars, pureVars, pc, event, result, published>>

\* A subscriber throws or rejects: callHook's promise is rejected with its
\* error, the await throws it and the async function is rejected with it.
SubFail ==
    /\ pc \in {"global", "client", "raw"}
    /\ \E h \in running :
        /\ TierOf(h) = pc \/ pc = "raw"
        /\ running' = running \ {h}
        /\ log' = Append(log, Entry("fail", h))
        /\ result' = Rejected(h)
    /\ pc' = "done" /\ queue' = <<>>
    /\ UNCHANGED <<callVars, pureVars, event, published>>

\* Lines 138-143: after the global channel, the per-client channel if the
\* client has an identifier, else on to the local hook.
AfterGlobal ==
    /\ pc = "global" /\ CallHookSettled
    /\ IF client.hookIdentifier # ""
       THEN /\ pc' = "client"
            /\ \E n \in 0..MaxSubs : queue' = Subscribers("client", n)
            /\ published' = published \cup {<<event, client.hookIdentifier>>}
            /\ UNCHANGED <<running, log, result>>
       ELSE /\ \E k \in 0..MaxList : LocalTier(k)
            /\ UNCHANGED <<queue, published>>
    /\ UNCHANGED <<callVars, pureVars, event>>

AfterClient ==
    /\ pc = "client" /\ CallHookSettled
    /\ \E k \in 0..MaxList : LocalTier(k)
    /\ UNCHANGED <<callVars, pureVars, event, queue, published>>

\* A local hook that was called is fulfilled.
LocalEnd ==
    /\ pc \in {"local", "done"}
    /\ \E h \in running :
        /\ TierOf(h) = "local"
        /\ running' = running \ {h}
        /\ log' = Append(log, Entry("end", h))
    /\ UNCHANGED <<callVars, pureVars, pc, event, queue, result, published>>

\* A local hook that was called is rejected: Promise.all is rejected with the
\* first rejection, whatever the other entries do afterwards.
LocalFail ==
    /\ pc \in {"local", "done"}
    /\ \E h \in running :
        /\ TierOf(h) = "local"
        /\ running' = running \ {h}
        /\ log' = Append(log, Entry("fail", h))
        /\ IF pc = "local"
           THEN pc' = "done" /\ result' = Rejected(h)
           ELSE UNCHANGED <<pc, result>>
    /\ UNCHANGED <<callVars, pureVars, event, queue, published>>

\* The await of line 149 returns and the async function is fulfilled.
LocalDone ==
    /\ pc = "local" /\ LocalJoined
    /\ pc' = "done" /\ result' = Resolved
    /\ UNCHANGED <<callVars, pureVars, event, queue, running, log, published>>

\* Without a registry the options keep the local hook field as it is, and the
\* transport calls it itself when it raises the event.
InvokeRaw(e) ==
    /\ Quiet /\ sent.made
    /\ e \in DOMAIN sent.opts /\ sent.opts[e].kind # "composed"
    /\ event' = e /\ running' = {} /\ log' = <<>>
    /\ pc' = "raw" /\ result' = NoResult
    /\ queue' = sent.opts[e].fns
    /\ published' = {}
    /\ UNCHANGED <<callVars, pureVars>>

RawDone ==
    /\ pc = "raw" /\ queue = <<>> /\ running = {}
    /\ pc' = "done" /\ result' = Resolved
    /\ UNCHANGED <<callVars, pureVars, event, queue, running, log, published>>

-----------------------------------------------------------------------------
(* The specification of the client and its hook chain *)

NotFilled == [done |-> FALSE, path |-> <<>>]
NoSite == [kind |-> "none"]
NotChecked == [done |-> FALSE]

Clients(objs, fnIds, localFetches, hookIds, registries) ==
    {[options |-> c, localFetch |-> lf, hookIdentifier |-> id, hooks |-> h] :
        c \in {StaticConfig(o) : o \in objs} \cup {FnConfig(f) : f \in fnIds},
        lf \in localFetches, id \in hookIds, h \in registries}

InitWith(clients, servers) ==
    /\ client \in clients
    /\ server \in servers
    /\ call = NoCall /\ baseOpts = NoOpts /\ sent = NotSent
    /\ pc = "idle" /\ event = "" /\ queue = <<>> /\ running = {}
    /\ result = NoResult /\ log = <<>> /\ published = {}
    /\ fpT = <<>> /\ fpM = <<>> /\ fpOut = NotFilled
    /\ tyIn = NoSite /\ tyOut = NotChecked

\* Hook runs: the options vary in their hook fields.
HookBases ==
    {NoOpts, MkOpts({"onRequest"}, <<>>, <<>>, HookFn("base")),
     MkOpts({"onResponse"}, <<>>, <<>>, HookList("base", MaxList))}
HookCalls ==
    {NoOpts} \cup {MkOpts({e}, <<>>, <<>>, hv) : e \in Events, hv \in HookVals("call")}

Init == InitWith(Clients(HookBases, {"merge"}, {TRUE}, {"", "api"}, BOOLEAN), {TRUE})

Next ==
    \/ \E o \in HookCalls : Call(<<"/", "{", "a", "}">>, o)
    \/ Return
    \/ \E e \in Events : InvokeComposed(e)
    \/ \E e \in Events : InvokeRaw(e)
    \/ SubStart
    \/ SubEnd
    \/ SubFail
    \/ AfterGlobal
    \/ AfterClient
    \/ LocalEnd
    \/ LocalFail
    \/ LocalDone
    \/ RawDone

Spec == Init /\ [][Next]_vars

-----------------------------------------------------------------------------
(* The specification of the client's calls: the options, the URL and the    *)
(* configuration vary; the hooks the transport would call are left out.     *)

BaseURLs == {<<>>, <<"/", "a">>, <<"x", ":">>}
URLs == {<<"/", "{", "a", "}">>, <<"x", ":", "/", "{", "a", "}">>, <<>>}
PathMaps == {<<<<<<"a">>, Num(1)>>>>, <<<<<<"a">>, Str(<<"b", " ">>)>>>>}

ClientBases ==
    {MkOpts(keys, bu, <<>>, hv) :
        keys \in SUBSET {"baseURL", "onRequest"}, bu \in BaseURLs,
        hv \in {HookFn("base"), HookList("base", MaxList)}}
ClientCalls ==
    {MkOpts(keys \cup hk, bu, pm, HookFn("call")) :
        keys \in SUBSET {"baseURL", "path"}, hk \in {{}, {"onRequest"}, {"onResponse"}},
        bu \in BaseURLs, pm \in PathMaps}

InitClient == InitWith(Clients(ClientBases, FnIds, BOOLEAN, {"api"}, BOOLEAN), BOOLEAN)

NextClient ==
    \/ \E u \in URLs, o \in ClientCalls : Call(u, o)
    \/ Return

SpecClient == InitClient /\ [][NextClient]_vars

-----------------------------------------------------------------------------
(* Properties of the hook dispatch chain, under Spec *)

Rank(tier) == CASE tier = "global" -> 1 [] tier = "client" -> 2 [] OTHER -> 3

Starts(tier) == {i \in DOMAIN log : log[i].k = "start" /\ log[i].tier = tier}
Failures == {i \in DOMAIN log : log[i].k \in {"fail", "throw"}}
EndedBefore(i, j) ==
    \E m \in DOMAIN log : i < m /\ m < j /\ log[m].k = "end" /\ log[m].id = log[i].id

\* tier `a` is over before tier `b` begins: every hook of `a` that was started
\* was started, and has ended, before any hook of `b` is started.
TierBefore(a, b) ==
    \A i \in Starts(a), j \in Starts(b) : i < j /\ EndedBefore(i, j)

\* C1: in a client made with a hook registry and a client identifier, whatever
\* the event, the subscribers of the global channel have all completed before
\* a subscriber of the per-client channel begins, and these have all
\* completed before a local hook begins.
C1_TierOrder ==
    (client.hooks /\ client.hookIdentifier # "")
        => /\ TierBefore("global", "client")
           /\ TierBefore("client", "local")
           /\ TierBefore("global", "local")

\* C1 witness: an invocation for onResponseError has gone through subscribers
\* of both channels and has started the local hooks.
C1_Witness ==
    /\ client.hooks /\ client.hookIdentifier # ""
    /\ event = "onResponseError" /\ pc = "local"
    /\ Cardinality(Starts("global")) = MaxSubs
    /\ Cardinality(Starts("client")) = MaxSubs
    /\ Cardinality(Starts("local")) = MaxList

\* C2: in a client made without a hook registry nothing is published on a
\* channel, the options the transport gets carry the local hooks of the
\* effective options unchanged, the transport's raising an event runs those
\* hooks and only those, and no error comes of the missing registry.
C2_NoRegistry ==
    ~client.hooks =>
        /\ published = {}
        /\ \A i \in DOMAIN log : log[i].tier = "local"
        /\ result # Rejected(TypeError)
        /\ sent.made =>
              \A e \in Events :
                 /\ e \in DOMAIN sent.opts <=> e \in DOMAIN baseOpts
                 /\ e \in DOMAIN baseOpts => sent.opts[e] = baseOpts[e]
        /\ (pc = "done" /\ result = Resolved) =>
              /\ event \in DOMAIN baseOpts
              /\ \A n \in DOMAIN baseOpts[event].fns :
                    \E i, j \in DOMAIN log :
                       /\ i < j
                       /\ log[i] = Entry("start", baseOpts[event].fns[n])
                       /\ log[j] = Entry("end", baseOpts[event].fns[n])

\* C2 witness: without a registry (and with an identifier), the transport
\* raised an event and both entries of the local hook list have run.
C2_Witness ==
    /\ ~client.hooks /\ client.hookIdentifier # ""
    /\ pc = "done" /\ result = Resolved
    /\ Len(log) = 2 * MaxList

FirstFailure == CHOOSE i \in Failures : \A j \in Failures : i <= j

\* C9: in a client made with a hook registry, once a hook has thrown or
\* rejected no hook of a later tier is started, and the composed hook is
\* rejected with the error of that hook.
C9_FailureAborts ==
    (client.hooks /\ Failures # {}) =>
        /\ \A i \in Failures, j \in DOMAIN log :
              (log[j].k = "start" /\ Rank(log[j].tier) > Rank(log[i].tier)) => j < i
        /\ pc = "done"
        /\ result = Rejected(log[FirstFailure].id)

\* C9 witness: a subscriber of the global channel has failed in a client with
\* an identifier and a local hook for the event.
C9_Witness ==
    /\ client.hooks /\ client.hookIdentifier # ""
    /\ event \in DOMAIN baseOpts /\ baseOpts[event].fns # <<>>
    /\ Failures # {} /\ log[FirstFailure].tier = "global"
    /\ pc = "done"

LocalIsList == event \in DOMAIN baseOpts /\ baseOpts[event].kind = "array"
LocalEntries == {baseOpts[event].fns[n] : n \in DOMAIN baseOpts[event].fns}
Started(h) == \E i \in DOMAIN log : log[i] = Entry("start", h)
Ended(h) == \E i \in DOMAIN log : log[i] = Entry("end", h)

\* C10 as stated: with a list as local hook, every entry is started before
\* the composed hook awaits them, and the composed hook has completed only
\* when every entry has completed, whatever the outcome.
C10_Original ==
    (client.hooks /\ LocalIsList) =>
        /\ pc = "local" => \A h \in LocalEntries : Started(h)
        /\ (pc = "done" /\ \A h \in LocalEntries : Started(h)) =>
              \A h \in LocalEntries : h \notin running

\* C10 amended: with a list as local hook, every entry is started before the
\* composed hook awaits them; the composed hook is fulfilled only when every
\* entry has been fulfilled; and it is rejected as soon as one entry rejects
\* or throws, with that error, whatever the other entries are still doing.
C10_JoinThenFailFast ==
    (client.hooks /\ LocalIsList) =>
        /\ pc = "local" => \A h \in LocalEntries : Started(h)
        /\ (pc = "done" /\ result = Resolved) =>
              \A h \in LocalEntries : Started(h) /\ Ended(h) /\ h \notin running
        /\ (\E i \in Failures : log[i].tier = "local") =>
              pc = "done" /\ result = Rejected(log[FirstFailure].id)

\* C10 witness: the composed hook was rejected by one entry of the list while
\* another entry is still running.
C10_Witness ==
    /\ client.hooks /\ LocalIsList
    /\ pc = "done" /\ result.st = "rejected"
    /\ \E h \in running : TierOf(h) = "local"
    /\ \A h \in LocalEntries : Started(h)

-----------------------------------------------------------------------------
(* Properties of a call of the client, under SpecClient *)

\* C3 as stated: the local transport is used exactly when the code runs on
\* the server, a local transport was given, the URL starts with "/" and the
\* effective base URL is absent or starts with "/".
C3_Original ==
    sent.made =>
        (sent.transport = "local" <=>
            /\ server /\ client.localFetch
            /\ StartsWithSlash(call.url)
            /\ "baseURL" \notin DOMAIN baseOpts \/ StartsWithSlash(baseOpts.baseURL))

\* C3 amended: ... and the effective base URL is absent, empty or starts with
\* "/"; in every other combination the global transport is used.
C3_TransportSelection ==
    sent.made =>
        /\ sent.transport \in {"local", "global"}
        /\ sent.transport = "local" <=>
            /\ server /\ client.localFetch
            /\ StartsWithSlash(call.url)
            /\ \/ "baseURL" \notin DOMAIN baseOpts
               \/ baseOpts.baseURL = <<>>
               \/ StartsWithSlash(baseOpts.baseURL)

\* C3 witness: on the server, with a local transport and a root-relative URL,
\* a call whose effective base URL is the empty string went to the local
\* transport.
C3_Witness ==
    /\ sent.made /\ server /\ client.localFetch
    /\ StartsWithSlash(call.url)
    /\ "baseURL" \in DOMAIN baseOpts /\ baseOpts.baseURL = <<>>
    /\ sent.transport = "local"

\* C5: the effective options are what the options function returns for the
\* call options when the configuration is a function, and else the static
\* object's keys and the call's, with the call's value wherever the call has
\* the key, hook fields included.
C5_EffectiveOptions ==
    sent.made =>
        IF client.options.fn
        THEN baseOpts = ApplyFn(client.options.id, call.opts)
        ELSE /\ DOMAIN baseOpts = DOMAIN client.options.obj \cup DOMAIN call.opts
             /\ \A k \in DOMAIN call.opts : baseOpts[k] = call.opts[k]
             /\ \A k \in DOMAIN client.options.obj \ DOMAIN call.opts :
                   baseOpts[k] = client.options.obj[k]

\* C5 witness: a static configuration and a call that both carry a base URL
\* and an onRequest hook, the call's differing from the configuration's.
C5_Witness ==
    /\ sent.made /\ ~client.options.fn
    /\ {"baseURL", "onRequest"} \subseteq DOMAIN client.options.obj
    /\ {"baseURL", "onRequest"} \subseteq DOMAIN call.opts
    /\ client.options.obj.baseURL # call.opts.baseURL
    /\ baseOpts.onRequest = HookFn("call")

\* The path-parameter map of the effective options, empty when none is given.
PathOf(o) == IF "path" \in DOMAIN o THEN o.path ELSE <<>>

\* The URL the transport gets is fillPath of the call's URL under the
\* effective options' path-parameter map.
SentURL == sent.url = fillPath(call.url, PathOf(baseOpts))

\* The hook fields of the options the transport gets: the composed hooks, in
\* all four fields, when the client has a registry, and else as given.
SentHooks ==
    IF client.hooks
    THEN \A e \in Events : e \in DOMAIN sent.opts /\ sent.opts[e] = createHook
    ELSE \A e \in Events :
            /\ e \in DOMAIN sent.opts <=> e \in DOMAIN baseOpts
            /\ e \in DOMAIN baseOpts => sent.opts[e] = baseOpts[e]

\* Every key of the effective options in `keys` is handed on as it is.
SentUnchanged(keys) ==
    \A k \in keys : k \in DOMAIN sent.opts /\ sent.opts[k] = baseOpts[k]

\* C11 as stated: the transport gets the URL fillPath gives and the
\* effective options without their path key, every other key unchanged apart
\* from the composed hook fields.
C11_Original ==
    sent.made =>
        /\ SentURL
        /\ "path" \notin DOMAIN sent.opts
        /\ SentUnchanged(DOMAIN baseOpts \ (Events \cup {"path"}))
        /\ SentHooks

\* C11: the transport gets the URL fillPath gives from the effective options'
\* path-parameter map (the empty map when none is given) and the effective
\* options with their path key still in them: every key other than the hook
\* fields, path included, is handed on unchanged, no key is added but the
\* composed hook fields.
C11_TransportCall ==
    sent.made =>
        /\ SentURL
        /\ SentUnchanged(DOMAIN baseOpts \ Events)
        /\ DOMAIN sent.opts \ Events = DOMAIN baseOpts \ Events
        /\ SentHooks

\* C11 witness: a call with a path-parameter map and a base URL whose
\* placeholder was filled in, and whose transport got both keys and the
\* composed hooks.
C11_Witness ==
    /\ sent.made /\ client.hooks
    /\ {"path", "baseURL"} \subseteq DOMAIN baseOpts
    /\ baseOpts.path # <<>>
    /\ sent.url # call.url
    /\ sent.url = fillPath(call.url, baseOpts.path)
    /\ "path" \in DOMAIN sent.opts /\ sent.opts.path = baseOpts.path
    /\ sent.opts.onRequest = createHook

-----------------------------------------------------------------------------
(* The specification of fillPath on its own: templates and parameter maps   *)
(* vary.  A template is put together from literal pieces and placeholders.  *)

Pieces == {<<"/">>, <<"a">>, <<"{", "a", "}">>, <<"{", "b", "}">>}
Templates == UNION {[1..n -> Pieces] : n \in 0..MaxPieces}

ParamKeys == {<<"a">>, <<"b">>}
ParamValues == {Num(1), Str(<<"x", " ">>), Str(<<"{", "b", "}">>)}
ParamMaps ==
    {<<>>} \cup {<<<<k, v>>>> : k \in ParamKeys, v \in ParamValues}
    \cup {<<<<ks[1], v1>>, <<ks[2], v2>>>> :
            ks \in {p \in ParamKeys \X ParamKeys : p[1] # p[2]},
            v1 \in ParamValues, v2 \in ParamValues}

IdleClient ==
    [options |-> StaticConfig(NoOpts), localFetch |-> FALSE,
     hookIdentifier |-> "", hooks |-> FALSE]

InitFillPath ==
    /\ client = IdleClient /\ server = FALSE
    /\ call = NoCall /\ baseOpts = NoOpts /\ sent = NotSent
    /\ pc = "idle" /\ event = "" /\ queue = <<>> /\ running = {}
    /\ result = NoResult /\ log = <<>> /\ published = {}
    /\ fpT \in Templates /\ fpM \in ParamMaps /\ fpOut = NotFilled
    /\ tyIn = NoSite /\ tyOut = NotChecked

FillPath ==
    /\ ~fpOut.done
    /\ fpOut' = [done |-> TRUE, path |-> fillPath(Flatten(fpT), fpM)]
    /\ UNCHANGED <<callVars, runVars, fpT, fpM, tyVars>>

NextFillPath == FillPath

SpecFillPath == InitFillPath /\ [][NextFillPath]_vars

IsPlaceholder(piece) == Len(piece) > 1
KeyOf(piece) == SubSeq(piece, 2, Len(piece) - 1)
HasKey(m, k) == \E i \in DOMAIN m : m[i][1] = k
ValueOf(m, k) == m[CHOOSE i \in DOMAIN m : m[i][1] = k][2]

\* The {...} tokens of a string: an opening brace, a closing brace after it
\* and no brace in between.
Tokens(s) ==
    {<<i, j>> \in (DOMAIN s) \X (DOMAIN s) :
        /\ i < j /\ s[i] = "{" /\ s[j] = "}"
        /\ \A m \in (i + 1)..(j - 1) : s[m] \notin {"{", "}"}}

AllKeysGiven == \A i \in DOMAIN fpT : IsPlaceholder(fpT[i]) => HasKey(fpM, KeyOf(fpT[i]))
NoRepeat ==
    \A i, j \in DOMAIN fpT : (IsPlaceholder(fpT[i]) /\ fpT[i] = fpT[j]) => i = j

\* The template with each placeholder piece replaced by the percent-encoded
\* string form of the value the map gives for it.
Substituted ==
    Flatten([i \in DOMAIN fpT |->
        IF IsPlaceholder(fpT[i]) /\ HasKey(fpM, KeyOf(fpT[i]))
        THEN encodeURIComponent(String(ValueOf(fpM, KeyOf(fpT[i]))))
        ELSE fpT[i]])

\* C4 as stated: when the map has a key for every placeholder of the
\* template, the result holds no {...} token and every placeholder has become
\* the percent-encoded string form of its value.
C4_Original ==
    (fpOut.done /\ AllKeysGiven) =>
        /\ Tokens(fpOut.path) = {}
        /\ fpOut.path = Substituted

\* C4 amended: ... and no placeholder occurs twice in the template ...
C4_FillPath ==
    (fpOut.done /\ AllKeysGiven /\ NoRepeat) =>
        /\ Tokens(fpOut.path) = {}
        /\ fpOut.path = Substituted

\* C4 witness: a template with two different placeholders was filled from a
\* map whose values need encoding, one of them holding a placeholder itself.
C4_Witness ==
    /\ fpOut.done /\ AllKeysGiven /\ NoRepeat
    /\ Cardinality({i \in DOMAIN fpT : IsPlaceholder(fpT[i])}) = 2
    /\ \E i \in DOMAIN fpM : fpM[i][2] = Str(<<"{", "b", "}">>) /\ fpM[i][1] = <<"a">>
    /\ fpOut.path # Flatten(fpT)

-----------------------------------------------------------------------------
(* The call-site types (lines 29-119), as the functions on types they are.  *)
(* A union of literal types is the set of its members and never the empty   *)
(* set.  A path item of the schema maps each of its keys to "declared" (an  *)
(* operation) or "never" (a key the generator emits as `key?: never`).      *)

Get == <<"g", "e", "t">>
Post == <<"p", "o", "s", "t">>
Put == <<"p", "u", "t">>
Parameters == <<"parameters">>
MethodKeys == {Get, Post, Put}

LowerLetters == <<"g", "e", "t", "p", "o", "s", "u">>
UpperLetters == <<"G", "E", "T", "P", "O", "S", "U">>
ToLower(c) ==
    IF \E i \in DOMAIN UpperLetters : UpperLetters[i] = c
    THEN LowerLetters[CHOOSE i \in DOMAIN UpperLetters : UpperLetters[i] = c]
    ELSE c
ToUpper(c) ==
    IF \E i \in DOMAIN LowerLetters : LowerLetters[i] = c
    THEN UpperLetters[CHOOSE i \in DOMAIN LowerLetters : LowerLetters[i] = c]
    ELSE c
Lowercase(m) == [i \in DOMAIN m |-> ToLower(m[i])]
Uppercase(m) == [i \in DOMAIN m |-> ToUpper(m[i])]
Capitalize(m) == [i \in DOMAIN m |-> IF i = 1 THEN ToUpper(m[i]) ELSE m[i]]

\* FilterMethods<T>: the keys of T but `parameters` whose type is not
\* never | undefined.
FilterMethods(T) == {k \in (DOMAIN T) \ {Parameters} : T[k] # "never"}

\* The constraint of Method: Extract<keyof Methods, string>
\*                         | Uppercase<Extract<keyof Methods, string>>
MethodConstraint(Methods) == Methods \cup {Uppercase(k) : k \in Methods}

\* The method is looked up as it was written.
LowercasedMethodAsWritten(M, Methods) == IF M \subseteq Methods THEN M ELSE {}

\* The constraint of LowercasedMethod, which nothing else is inferred for:
\* Lowercase<Method> extends keyof Methods ? Lowercase<Method> : never
LowercasedMethod(M, Methods) ==
    LET L == {Lowercase(m) : m \in M}
    IN  IF L \subseteq Methods THEN L ELSE {}

\* 'get' extends LowercasedMethod ? 'get' : LowercasedMethod
DefaultMethod(L) == IF Get \in L THEN {Get} ELSE L

\* The default of Operation in OpenFetchOptions (lines 89-95).
Operation(L, Params) ==
    IF Get \in L
    THEN IF Get \in Params THEN {Get} ELSE {}
    ELSE {l \in L : l \in Params}

\* MethodOption<M, P>: an options object may do without `method` only when
\* 'get' extends keyof P.
MethodOption(hasMethod, P) == hasMethod \/ Get \in P

\* The call site site.item's client is called at, with its options argument
\* (optional, line 118) and the method written in it: what the type checker
\* infers, and whether it accepts the call.  A type parameter with nothing to
\* infer it from is its constraint.
OpenFetchClient(site) ==
    LET Methods == FilterMethods(site.item)
        M == IF site.hasMethod THEN {site.method} ELSE MethodConstraint(Methods)
        L == LowercasedMethod(M, Methods)
    IN  [done |-> TRUE,
         accepted |-> /\ M \subseteq MethodConstraint(Methods)
                      /\ site.hasOptions => MethodOption(site.hasMethod, Methods),
         operation |-> Operation(L, Methods),
         response |-> DefaultMethod(L),
         field |-> ""]

\* Types of body values: the schema of a media type, the two native form
\* classes, undefined and unknown.
Media == {"application/json", "multipart/form-data",
          "application/x-www-form-urlencoded", "application/xml"}
Schema(mt) == <<"schema", mt>>
FormData == <<"native", "FormData">>
URLSearchParams == <<"native", "URLSearchParams">>
Undefined == <<"undefined", "">>
Unknown == <<"unknown", "">>
Omitted == <<"omitted", "">>

\* A | B, where unknown absorbs every other member.
TUnion(a, b) == IF Unknown \in a \cup b THEN {Unknown} ELSE a \cup b

\* An operation's requestBody: `requestBody?: never` (no body; what the
\* schema generator emits for an operation without one), or a required or
\* optional object whose content has some media types.
Operations ==
    {[rb |-> "never", content |-> {}]}
    \cup {[rb |-> r, content |-> c] :
            r \in {"required", "optional"}, c \in (SUBSET Media) \ {{}}}

\* T extends { requestBody?: { content: { [mt]: infer Body } } }
\* The pattern's requestBody is optional.  An operation whose requestBody is
\* an object, required or optional, is assignable when its content has the
\* media type, and Body is that media type's schema.  An operation with
\* `requestBody?: never` is assignable too (its property is undefined, the
\* pattern's is optional), with nothing to infer Body from: Body is unknown.
BodyPattern(T, mt) ==
    IF T.rb = "never" THEN [match |-> TRUE, body |-> {Unknown}]
    ELSE IF mt \in T.content THEN [match |-> TRUE, body |-> {Schema(mt)}]
    ELSE [match |-> FALSE, body |-> {}]

FormDataBody(T) ==
    LET r == BodyPattern(T, "multipart/form-data")
    IN  IF r.match THEN TUnion(r.body, {FormData}) ELSE {}

UrlEncodedBody(T) ==
    LET r == BodyPattern(T, "application/x-www-form-urlencoded")
    IN  IF r.match THEN TUnion(r.body, {URLSearchParams}) ELSE {}

JsonBody(T) ==
    LET r == BodyPattern(T, "application/json")
    IN  IF r.match THEN r.body ELSE {}

AvailableBodyTypes(T) == TUnion(TUnion(FormDataBody(T), UrlEncodedBody(T)), JsonBody(T))

\* The helper of openapi-typescript-helpers: the body content the operation
\* declares, of whatever media type, and undefined when the body is optional.
OperationRequestBodyContent(T) ==
    {Schema(mt) : mt \in T.content} \cup (IF T.rb = "required" THEN {} ELSE {Undefined})

EnhancedRequestBody(T) ==
    IF AvailableBodyTypes(T) = {} THEN OperationRequestBodyContent(T)
    ELSE AvailableBodyTypes(T)

\* RequestBodyOption<T>: { body?: never }, { body?: ... } or { body: ... }
RequestBodyOption(T) ==
    IF EnhancedRequestBody(T) = {} THEN "absent"
    ELSE IF Undefined \in EnhancedRequestBody(T) \/ Unknown \in EnhancedRequestBody(T)
         THEN "optional"
         ELSE "required"

\* Whether options with the body value v (or without a body) fit
\* RequestBodyOption<T>.
BodyFits(T, v) ==
    IF v = Omitted THEN RequestBodyOption(T) # "required"
    ELSE /\ RequestBodyOption(T) # "absent"
         /\ v \in EnhancedRequestBody(T) \/ Unknown \in EnhancedRequestBody(T)

-----------------------------------------------------------------------------
(* The specification of the type check of a call site *)

PathItems == [MethodKeys \cup {Parameters} -> {"declared", "never"}]
Spellings == UNION {{k, Uppercase(k), Capitalize(k)} : k \in MethodKeys}

MethodSites ==
    {[kind |-> "method", item |-> P, hasOptions |-> FALSE, hasMethod |-> FALSE,
      method |-> <<>>] : P \in PathItems}
    \cup {[kind |-> "method", item |-> P, hasOptions |-> TRUE, hasMethod |-> FALSE,
           method |-> <<>>] : P \in PathItems}
    \cup {[kind |-> "method", item |-> P, hasOptions |-> TRUE, hasMethod |-> TRUE,
           method |-> m] : P \in PathItems, m \in Spellings}

BodyValues == {Omitted, FormData, URLSearchParams} \cup {Schema(mt) : mt \in Media}
BodySites == {[kind |-> "body", op |-> T, body |-> v] : T \in Operations, v \in BodyValues}

InitTypes ==
    /\ client = IdleClient /\ server = FALSE
    /\ call = NoCall /\ baseOpts = NoOpts /\ sent = NotSent
    /\ pc = "idle" /\ event = "" /\ queue = <<>> /\ running = {}
    /\ result = NoResult /\ log = <<>> /\ published = {}
    /\ fpT = <<>> /\ fpM = <<>> /\ fpOut = NotFilled
    /\ tyIn \in MethodSites \cup BodySites /\ tyOut = NotChecked

CheckMethod ==
    /\ tyIn.kind = "method" /\ ~tyOut.done
    /\ tyOut' = OpenFetchClient(tyIn)
    /\ UNCHANGED <<callVars, runVars, fpVars, tyIn>>

CheckBody ==
    /\ tyIn.kind = "body" /\ ~tyOut.done
    /\ tyOut' = [done |-> TRUE, accepted |-> BodyFits(tyIn.op, tyIn.body),
                 operation |-> {}, response |-> {},
                 field |-> RequestBodyOption(tyIn.op)]
    /\ UNCHANGED <<callVars, runVars, fpVars, tyIn>>

NextTypes == CheckMethod \/ CheckBody

SpecTypes == InitTypes /\ [][NextTypes]_vars

Declared == {k \in MethodKeys : tyIn.item[k] = "declared"}
MethodChecked == tyOut.done /\ tyIn.kind = "method"
BodyChecked == tyOut.done /\ tyIn.kind = "body"

\* C6 as stated: a method written in any letter case selects the operation
\* under its lowercased name; an omitted method selects get when the path has
\* one, as 'get' and 'GET' do; without a get the method is required; and a
\* call whose method names no operation of the path is rejected.
C6_Original ==
    MethodChecked =>
        /\ (tyIn.hasMethod /\ Lowercase(tyIn.method) \in Declared) =>
              /\ tyOut.accepted
              /\ tyOut.operation = {Lowercase(tyIn.method)}
        /\ (tyIn.hasMethod /\ Lowercase(tyIn.method) \notin Declared) => ~tyOut.accepted
        /\ (~tyIn.hasMethod /\ Get \in Declared) =>
              tyOut.accepted /\ tyOut.operation = {Get} /\ tyOut.response = {Get}
        /\ (~tyIn.hasMethod /\ Get \notin Declared) => ~tyOut.accepted

\* C6 amended: a method is accepted in its all-lowercase and its all-uppercase
\* spelling only, and selects the operation under its lowercased name; any
\* other spelling, and a method that names no operation of the path, is
\* rejected; an omitted method selects get when the path has one, as 'get' and
\* 'GET' do; without a get, an options object that lacks the method is
\* rejected, while a call that passes no options object is accepted.
C6_MethodResolution ==
    MethodChecked =>
        /\ tyIn.hasMethod =>
              /\ tyOut.accepted <=>
                    \E k \in Declared : tyIn.method \in {k, Uppercase(k)}
              /\ tyOut.accepted =>
                    /\ tyOut.operation = {Lowercase(tyIn.method)}
                    /\ tyOut.response = {Lowercase(tyIn.method)}
        /\ (~tyIn.hasMethod /\ Get \in Declared) =>
              tyOut.accepted /\ tyOut.operation = {Get} /\ tyOut.response = {Get}
        /\ (~tyIn.hasMethod /\ Get \notin Declared) =>
              (tyOut.accepted <=> ~tyIn.hasOptions)

\* C6 witness: POST, in capitals, was accepted on a path that has a get and a
\* post operation, and selected the post operation.
C6_Witness ==
    /\ MethodChecked /\ tyIn.hasMethod
    /\ tyIn.method = Uppercase(Post) /\ {Get, Post} \subseteq Declared
    /\ tyOut.accepted /\ tyOut.operation = {Post}

ThreeMedia == {"application/json", "multipart/form-data", "application/x-www-form-urlencoded"}

\* The body representations the claim lets a caller pass to an operation.
ClaimedBodies(T) ==
    IF T.content \cap ThreeMedia = {}
    THEN {Schema(mt) : mt \in T.content}
    ELSE UNION {
           IF mt = "multipart/form-data" THEN {Schema(mt), FormData}
           ELSE IF mt = "application/x-www-form-urlencoded" THEN {Schema(mt), URLSearchParams}
           ELSE {Schema(mt)} : mt \in T.content \cap ThreeMedia}

\* C7: the body values accepted for an operation are those of the union over
\* its declared media types (schema and FormData for multipart/form-data,
\* schema and URLSearchParams for application/x-www-form-urlencoded, the
\* schema for application/json), a native form value only with its media
\* type declared, and the declared content when none of the three is.
C7_AcceptedBodies ==
    (BodyChecked /\ tyIn.body # Omitted) =>
        (tyOut.accepted <=> tyIn.body \in ClaimedBodies(tyIn.op))

\* C8: the body field is absent when the operation accepts no body, optional
\* when the schema marks the request body optional, whatever the media type
\* it is declared under, and required in every other case.
C8_BodyField ==
    BodyChecked =>
        tyOut.field = CASE tyIn.op.rb = "never"    -> "absent"
                        [] tyIn.op.rb = "optional" -> "optional"
                        [] OTHER                   -> "required"

=============================================================================
